---- MODULE Spec2Model ----
(***************************************************************************)
(* A model of the logos database core (src/src/db.rs): the Db struct with  *)
(* its entity counter, ident map and three record indexes, the KV store's  *)
(* DbContents root, and the operations Db::new, Db::transact and Db::query.*)
(*                                                                         *)
(* Entity(u64) is modelled as a natural number; the counter next_id is     *)
(* bounded by the number of items a behaviour submits.  An index (a        *)
(* persistent B-tree ordered by a total order on records) is modelled as   *)
(* the set of records it holds, and a root ref as the set the root denotes *)
(* (nodes are immutable and content addressed).                            *)
(***************************************************************************)
EXTENDS Integers, Sequences, FiniteSets, TLC

\* ------------------------------------------------------------------ bounds

\* Largest number of transaction items submitted in one behaviour, over all
\* its transact calls; it bounds the number of calls and so the counter next_id.
MaxItems == 3

\* The instants UTC::now() may return; the clock never runs backwards.
Timestamps == {1, 2}

\* ------------------------------------------------------------------ values

\* Value::String(s)
VString(s) == [tag |-> "String", s |-> s, n |-> 0]

\* Value::Entity(Entity(n))
VEntity(n) == [tag |-> "Entity", s |-> "", n |-> n]

\* Value::Ident(name)
VIdent(s) == [tag |-> "Ident", s |-> s, n |-> 0]

\* Value::Timestamp(t)
VTimestamp(t) == [tag |-> "Timestamp", s |-> "", n |-> t]

\* Record::new(entity, attribute, value, tx)
Record(e, a, v, tx) == [entity |-> e, attribute |-> a, value |-> v, tx |-> tx]

\* ------------------------------------------------------------ the ident map

\* IdentMap::default(): no name is mapped.
EmptyIdents == [x \in {} |-> 0]

\* IdentMap::add(name, entity): the extended map; an existing name is overwritten.
IdentAdd(m, name, e) == [x \in (DOMAIN m) \cup {name} |-> IF x = name THEN e ELSE m[x]]

\* IdentMap::get_entity(name) is Some(_).
HasEntity(m, name) == name \in DOMAIN m

\* IdentMap::get_entity(name), when it is Some.
GetEntity(m, name) == m[name]

\* ---------------------------------------------------------------- orderings

\* Ordering::Less, Equal, Greater of two integers as -1, 0, 1.
CmpInt(a, b) == IF a < b THEN -1 ELSE IF a > b THEN 1 ELSE 0

\* The strings of the model in the order of str::cmp (byte-wise).
StrOrder == <<"", "Bob", "db:ident", "db:txInstant", "hi", "name", "parent">>

\* The position of a string in that order.
StrRank(s) == CHOOSE i \in 1..Len(StrOrder) : StrOrder[i] = s

\* The position of a variant of Value in the derived order of the enum;
\* String comes first: Value::String("") is the lowest-sorted value.
TagRank(tag) ==
    CASE tag = "String" -> 0
      [] tag = "Entity" -> 1
      [] tag = "Ident" -> 2
      [] tag = "Timestamp" -> 3

\* Ord for Value: by variant, then by the payload.
CmpValue(v, w) ==
    IF v.tag # w.tag THEN CmpInt(TagRank(v.tag), TagRank(w.tag))
    ELSE IF v.tag \in {"String", "Ident"} THEN CmpInt(StrRank(v.s), StrRank(w.s))
    ELSE CmpInt(v.n, w.n)

\* Ordering::then over a list of comparison results: the first that is not Equal.
RECURSIVE Then(_)
Then(cs) == IF cs = <<>> THEN 0 ELSE IF Head(cs) # 0 THEN Head(cs) ELSE Then(Tail(cs))

\* The comparators EAVT, AEVT and AVET of records.
CmpRecord(order, r, q) ==
    LET e == CmpInt(r.entity, q.entity)
        a == CmpInt(r.attribute, q.attribute)
        v == CmpValue(r.value, q.value)
        t == CmpInt(r.tx, q.tx)
    IN  CASE order = "EAVT" -> Then(<<e, a, v, t>>)
          [] order = "AEVT" -> Then(<<a, e, v, t>>)
          [] order = "AVET" -> Then(<<a, v, e, t>>)

\* ---------------------------------------------------------------- indexes

\* A root ref denotes an immutable tree: the set of records it holds and the
\* comparator its nodes are ordered by.
Tree(order, recs) == [order |-> order, recs |-> recs]

\* The empty root ref of a fresh store: it denotes no tree yet.
EmptyRef == Tree("", {})

\* Index::new(root_ref, node_store, order): the tree at the root ref, read
\* under the comparator; an empty ref gives an empty tree of that comparator.
Index(root_ref, order) ==
    [root_ref |-> IF root_ref = EmptyRef THEN Tree(order, {}) ELSE root_ref,
     order |-> order]

\* Index::insert(record): the index with the root of the tree that holds the
\* record too.  The comparators are total on all four fields, so a record
\* equal under one to a record held is that record, and is not added twice.
Insert(index, record) == [index EXCEPT !.root_ref.recs = @ \cup {record}]

\* The set of records an index holds.
Records(index) == index.root_ref.recs

\* ------------------------------------------------------------- the Db struct

\* The fields of Db, with the flag `panicked` threaded through the operators:
\* it is set where the code reaches unimplemented!() or unwraps a None.
MkDb(n, i, e, av, ae) ==
    [next_id |-> n, idents |-> i, eav |-> e, ave |-> av, aev |-> ae, panicked |-> FALSE]

\* Db::get_id: the id handed out and the Db with the counter advanced.
get_id(d) == [id |-> d.next_id, db |-> [d EXCEPT !.next_id = @ + 1]]

\* Mutant of add (C1): the record is not inserted into the AEVT index.
add_skips_aev(d, record) ==
    LET d1 == IF record.entity >= d.next_id
              THEN [d EXCEPT !.next_id = record.entity + 1]
              ELSE d
        d2 == [d1 EXCEPT !.eav = Insert(@, record),
                         !.ave = Insert(@, record)]
    IN  IF ~HasEntity(d2.idents, "db:ident")
        THEN [d2 EXCEPT !.panicked = TRUE]
        ELSE IF record.attribute = GetEntity(d2.idents, "db:ident")
             THEN IF record.value.tag = "Ident"
                  THEN [d2 EXCEPT !.idents = IdentAdd(@, record.value.s, record.entity)]
                  ELSE [d2 EXCEPT !.panicked = TRUE]
             ELSE d2

\* Mutant of add (C6): next_id is set from the record's entity without the
\* test that the entity is not below it.
add_resets_next_id(d, record) ==
    LET d1 == [d EXCEPT !.next_id = record.entity + 1]
        d2 == [d1 EXCEPT !.eav = Insert(@, record),
                         !.ave = Insert(@, record),
                         !.aev = Insert(@, record)]
    IN  IF ~HasEntity(d2.idents, "db:ident")
        THEN [d2 EXCEPT !.panicked = TRUE]
        ELSE IF record.attribute = GetEntity(d2.idents, "db:ident")
             THEN IF record.value.tag = "Ident"
                  THEN [d2 EXCEPT !.idents = IdentAdd(@, record.value.s, record.entity)]
                  ELSE [d2 EXCEPT !.panicked = TRUE]
             ELSE d2

\* Db::add
add(d, record) ==
    LET d1 == IF record.entity >= d.next_id
              THEN [d EXCEPT !.next_id = record.entity + 1]
              ELSE d
        d2 == [d1 EXCEPT !.eav = Insert(@, record),
                         !.ave = Insert(@, record),
                         !.aev = Insert(@, record)]
    IN  IF ~HasEntity(d2.idents, "db:ident")
        THEN [d2 EXCEPT !.panicked = TRUE]
        ELSE IF record.attribute = GetEntity(d2.idents, "db:ident")
             THEN IF record.value.tag = "Ident"
                  THEN [d2 EXCEPT !.idents = IdentAdd(@, record.value.s, record.entity)]
                  ELSE [d2 EXCEPT !.panicked = TRUE]
             ELSE d2

\* add on a Db that has not panicked; a panicked Db is left as it is.
add_live(d, record) == IF d.panicked THEN d ELSE add(d, record)

\* Mutant of save_contents (C4): the roots of the AEVT and AVET indexes are
\* written to each other's field.
save_contents_swapped(d) ==
    [next_id |-> d.next_id, idents |-> d.idents,
     eav |-> d.eav.root_ref, aev |-> d.ave.root_ref, ave |-> d.aev.root_ref]

\* DbContents built by Db::save_contents from the fields of the Db.
save_contents(d) ==
    [next_id |-> d.next_id, idents |-> d.idents,
     eav |-> d.eav.root_ref, aev |-> d.aev.root_ref, ave |-> d.ave.root_ref]

\* KVStore::get_contents on a fresh store: next_id = 0, no idents, empty roots.
FreshContents ==
    [next_id |-> 0, idents |-> EmptyIdents,
     eav |-> EmptyRef, aev |-> EmptyRef, ave |-> EmptyRef]

\* Mutant of new (C9): the bootstrap leaves out the db:txInstant record.
new_without_txinstant(contents, now) ==
    LET d0 == MkDb(contents.next_id, contents.idents,
                   Index(contents.eav, "EAVT"), Index(contents.ave, "AVET"),
                   Index(contents.aev, "AEVT"))
        d1 == [d0 EXCEPT !.idents = IdentAdd(@, "db:ident", 1)]
    IN  IF d1.next_id = 0
        THEN LET b1 == add_live(d1, Record(0, 2, VTimestamp(now), 0))
                 b2 == add_live(b1, Record(1, 1, VIdent("db:ident"), 0))
             IN  b2
        ELSE d1

\* Db::new(store), where get_contents returns `contents` and UTC::now() `now`.
new(contents, now) ==
    LET d0 == MkDb(contents.next_id, contents.idents,
                   Index(contents.eav, "EAVT"), Index(contents.ave, "AVET"),
                   Index(contents.aev, "AEVT"))
        d1 == [d0 EXCEPT !.idents = IdentAdd(@, "db:ident", 1)]
    IN  IF d1.next_id = 0
        THEN LET b1 == add_live(d1, Record(0, 2, VTimestamp(now), 0))
                 b2 == add_live(b1, Record(1, 1, VIdent("db:ident"), 0))
                 b3 == add_live(b2, Record(2, 1, VIdent("db:txInstant"), 0))
             IN  b3
        ELSE d1

\* ------------------------------------------------------------ transactions

\* Fact::new(entity, attribute name, value)
Fact(e, a, v) == [entity |-> e, attribute |-> a, value |-> v]

\* The fact field of an item that carries none.
NoFact == Fact(0, "", VString(""))

\* TxItem::Addition(fact)
Addition(f) == [kind |-> "Addition", fact |-> f, pairs |-> <<>>]

\* TxItem::Retraction(fact)
Retraction(f) == [kind |-> "Retraction", fact |-> f, pairs |-> <<>>]

\* TxItem::NewEntity(ht): pairs lists the (name, value) pairs of the HashMap
\* in the order its iterator yields them.
NewEntity(pairs) == [kind |-> "NewEntity", fact |-> NoFact, pairs |-> pairs]

\* The state of one run of Db::transact: the Db, the error returned by `?`
\* ("" while there is none), the new_entities vector and the ids get_id gave.
TxRun(d, err, ents, ids) == [db |-> d, err |-> err, new_entities |-> ents, handed |-> ids]

\* The run has left the loop: by an error return or by a panic.
Stopped(run) == run.err # "" \/ run.db.panicked

\* The inner loop of the NewEntity arm: for (k, v) in ht { ... }
RECURSIVE new_entity_pairs(_, _, _, _)
new_entity_pairs(run, pairs, entity, tx_entity) ==
    IF pairs = <<>> \/ Stopped(run)
    THEN run
    ELSE LET k == Head(pairs).k
             v == Head(pairs).v
         IN  IF ~HasEntity(run.db.idents, k)
             THEN [run EXCEPT !.err = "invalid attribute"]
             ELSE new_entity_pairs(
                      [run EXCEPT !.db = add(@, Record(entity, GetEntity(run.db.idents, k),
                                                      v, tx_entity))],
                      Tail(pairs), entity, tx_entity)

\* Mutant of transact_item (C13): an Addition whose attribute name is unknown
\* still emits a record, under the attribute Entity(0), before the error.
transact_item_emits_unknown(run, item, tx_entity) ==
    CASE item.kind = "Addition" ->
           IF ~HasEntity(run.db.idents, item.fact.attribute)
           THEN [run EXCEPT !.err = "invalid attribute",
                            !.db = add(@, Record(item.fact.entity, 0,
                                                 item.fact.value, tx_entity))]
           ELSE [run EXCEPT !.db = add(@, Record(item.fact.entity,
                                                 GetEntity(run.db.idents, item.fact.attribute),
                                                 item.fact.value, tx_entity))]
      [] item.kind = "NewEntity" ->
           LET g == get_id(run.db)
               r == new_entity_pairs([run EXCEPT !.db = g.db, !.handed = @ \cup {g.id}],
                                     item.pairs, g.id, tx_entity)
           IN  IF Stopped(r) THEN r
               ELSE [r EXCEPT !.new_entities = Append(@, g.id)]
      [] OTHER -> [run EXCEPT !.db.panicked = TRUE]

\* Mutant of transact_item (C18): the record of an Addition is stamped with
\* the tx Entity(0) in place of the transaction entity.
transact_item_stamps_zero(run, item, tx_entity) ==
    CASE item.kind = "Addition" ->
           IF ~HasEntity(run.db.idents, item.fact.attribute)
           THEN [run EXCEPT !.err = "invalid attribute"]
           ELSE [run EXCEPT !.db = add(@, Record(item.fact.entity,
                                                 GetEntity(run.db.idents, item.fact.attribute),
                                                 item.fact.value, 0))]
      [] item.kind = "NewEntity" ->
           LET g == get_id(run.db)
               r == new_entity_pairs([run EXCEPT !.db = g.db, !.handed = @ \cup {g.id}],
                                     item.pairs, g.id, tx_entity)
           IN  IF Stopped(r) THEN r
               ELSE [r EXCEPT !.new_entities = Append(@, g.id)]
      [] OTHER -> [run EXCEPT !.db.panicked = TRUE]

\* Mutant of transact_item (C23): the entity of a NewEntity item is put at
\* the front of new_entities instead of being pushed at its end.
transact_item_prepends_entity(run, item, tx_entity) ==
    CASE item.kind = "Addition" ->
           IF ~HasEntity(run.db.idents, item.fact.attribute)
           THEN [run EXCEPT !.err = "invalid attribute"]
           ELSE [run EXCEPT !.db = add(@, Record(item.fact.entity,
                                                 GetEntity(run.db.idents, item.fact.attribute),
                                                 item.fact.value, tx_entity))]
      [] item.kind = "NewEntity" ->
           LET g == get_id(run.db)
               r == new_entity_pairs([run EXCEPT !.db = g.db, !.handed = @ \cup {g.id}],
                                     item.pairs, g.id, tx_entity)
           IN  IF Stopped(r) THEN r
               ELSE [r EXCEPT !.new_entities = <<g.id>> \o @]
      [] OTHER -> [run EXCEPT !.db.panicked = TRUE]

\* One iteration of the loop over tx.items: the match on the item.
transact_item(run, item, tx_entity) ==
    CASE item.kind = "Addition" ->
           IF ~HasEntity(run.db.idents, item.fact.attribute)
           THEN [run EXCEPT !.err = "invalid attribute"]
           ELSE [run EXCEPT !.db = add(@, Record(item.fact.entity,
                                                 GetEntity(run.db.idents, item.fact.attribute),
                                                 item.fact.value, tx_entity))]
      [] item.kind = "NewEntity" ->
           LET g == get_id(run.db)
               r == new_entity_pairs([run EXCEPT !.db = g.db, !.handed = @ \cup {g.id}],
                                     item.pairs, g.id, tx_entity)
           IN  IF Stopped(r) THEN r
               ELSE [r EXCEPT !.new_entities = Append(@, g.id)]
      [] OTHER -> [run EXCEPT !.db.panicked = TRUE]

\* The loop over tx.items.
RECURSIVE transact_items(_, _, _)
transact_items(run, items, tx_entity) ==
    IF items = <<>> \/ Stopped(run)
    THEN run
    ELSE transact_items(transact_item(run, Head(items), tx_entity), Tail(items), tx_entity)

\* Mutant of transact (C22): the db:txInstant record is added after the loop
\* over the items, so a run that an item stops never emits it.
transact_instant_after_items(d, items, now) ==
    LET g == get_id(d)
        tx_entity == g.id
        start == TxRun(g.db, "", <<>>, {tx_entity})
        done == IF ~HasEntity(g.db.idents, "db:txInstant")
                THEN [start EXCEPT !.db.panicked = TRUE]
                ELSE transact_items(start, items, tx_entity)
        run == IF Stopped(done) THEN done
               ELSE [done EXCEPT !.db = add(@, Record(tx_entity,
                                                      GetEntity(g.db.idents, "db:txInstant"),
                                                      VTimestamp(now), tx_entity))]
        outcome == IF run.db.panicked THEN "panic"
                   ELSE IF run.err # "" THEN run.err
                   ELSE "ok"
    IN  [db |-> run.db, outcome |-> outcome, saved |-> (outcome = "ok"),
         contents |-> save_contents(run.db), tx_entity |-> tx_entity,
         new_entities |-> run.new_entities, handed |-> run.handed]

\* Db::transact(tx) with UTC::now() = now: the Db after the call, the outcome
\* ("ok", the error message, or "panic"), what save_contents wrote (only when
\* it was called), the TxReport and the ids handed out.
transact(d, items, now) ==
    LET g == get_id(d)
        tx_entity == g.id
        start == TxRun(g.db, "", <<>>, {tx_entity})
        run == IF ~HasEntity(g.db.idents, "db:txInstant")
               THEN [start EXCEPT !.db.panicked = TRUE]
               ELSE transact_items(
                        [start EXCEPT !.db = add(@, Record(tx_entity,
                                                           GetEntity(g.db.idents, "db:txInstant"),
                                                           VTimestamp(now), tx_entity))],
                        items, tx_entity)
        outcome == IF run.db.panicked THEN "panic"
                   ELSE IF run.err # "" THEN run.err
                   ELSE "ok"
    IN  [db |-> run.db, outcome |-> outcome, saved |-> (outcome = "ok"),
         contents |-> save_contents(run.db), tx_entity |-> tx_entity,
         new_entities |-> run.new_entities, handed |-> run.handed]

\* Db::transact(tx) while the KV store fails one operation.  at = "insert": the
\* node write of the first Index::insert of Db::add fails, and the unwrap on
\* its result panics once get_id has been called.  at = "set_contents": the
\* commit in save_contents fails, and `?` returns its error; a run that does
\* not reach save_contents ends as it does without the failure.
transact_store_fails(d, items, now, at) ==
    LET r == transact(d, items, now)
    IN  IF at = "insert"
        THEN [r EXCEPT !.db = [get_id(d).db EXCEPT !.panicked = TRUE],
                       !.outcome = "panic", !.saved = FALSE,
                       !.new_entities = <<>>, !.handed = {r.tx_entity}]
        ELSE IF r.outcome = "ok"
             THEN [r EXCEPT !.outcome = "store error", !.saved = FALSE]
             ELSE r

\* ------------------------------------------------------------------ queries

\* Term::Bound(x); the payload is held as a Value: an entity e as Entity(e),
\* an attribute name as String(name), a value as itself.
Bound(x) == [bound |-> TRUE, val |-> x, var |-> ""]

\* Term::Unbound(var)
Unbound(var) == [bound |-> FALSE, val |-> VString(""), var |-> var]

\* Clause::new(entity, attribute, value)
Clause(e, a, v) == [entity |-> e, attribute |-> a, value |-> v]

\* Query::new(find, clauses)
Query(find, clauses) == [find |-> find, clauses |-> clauses]

\* Binding::default(): no variable is bound.
EmptyBinding == [x \in {} |-> VString("")]

\* HashMap::extend: the entries of `more` are put over those of `env`.
Extend(env, more) ==
    [x \in (DOMAIN env) \cup (DOMAIN more) |-> IF x \in DOMAIN more THEN more[x] ELSE env[x]]

\* Clause::substitute(binding): each variable the binding holds is replaced by
\* its value; a value that is no entity in the entity position, or no string
\* in the attribute position, is the error "type mismatch".
substitute(clause, binding) ==
    LET held(t) == ~t.bound /\ t.var \in DOMAIN binding
        bad == \/ held(clause.entity) /\ binding[clause.entity.var].tag # "Entity"
               \/ held(clause.attribute) /\ binding[clause.attribute.var].tag # "String"
        sub(t) == IF held(t) THEN Bound(binding[t.var]) ELSE t
    IN  [err |-> IF bad THEN "type mismatch" ELSE "",
         clause |-> Clause(sub(clause.entity), sub(clause.attribute), sub(clause.value))]

\* The records of a set in the order of a comparator: one record is put into
\* the sorted others, after those that are below it.
RECURSIVE SortBy(_, _)
SortBy(order, recs) ==
    IF recs = {} THEN <<>>
    ELSE LET x == CHOOSE r \in recs : TRUE
             rest == SortBy(order, recs \ {x})
             k == Cardinality({ i \in 1..Len(rest) : CmpRecord(order, rest[i], x) < 0 })
         IN  SubSeq(rest, 1, k) \o <<x>> \o SubSeq(rest, k + 1, Len(rest))

\* Index::iter(): the records of the tree in tree order.
Iter(index) == SortBy(index.root_ref.order, index.root_ref.recs)

\* Index::iter_range_from(range_start..): the records of the tree from the
\* first that is not below range_start under the comparator of the index.
IterRangeFrom(index, range_start) ==
    LET recs == Iter(index)
        from(r) == CmpRecord(index.order, r, range_start) >= 0
        at == { i \in 1..Len(recs) : from(recs[i]) }
    IN  IF at = {} THEN <<>>
        ELSE SubSeq(recs, CHOOSE i \in at : \A j \in at : i <= j, Len(recs))

\* Iterator::take_while(keep): the longest prefix whose records all satisfy
\* keep, given as the set of the records that satisfy it.
TakeWhile(recs, keep) ==
    LET stop == { i \in 1..Len(recs) : recs[i] \notin keep }
    IN  IF stop = {} THEN recs
        ELSE SubSeq(recs, 1, (CHOOSE i \in stop : \A j \in stop : i <= j) - 1)

\* unify(env, idents, clause, record): Some(new_info) or None.
unify(env, idents, clause, record) ==
    LET e_ok == IF clause.entity.bound
                THEN clause.entity.val.n = record.entity
                ELSE clause.entity.var \in DOMAIN env
                         => env[clause.entity.var] = VEntity(record.entity)
        e_info == IF ~clause.entity.bound /\ clause.entity.var \notin DOMAIN env
                  THEN Extend(EmptyBinding,
                              [x \in {clause.entity.var} |-> VEntity(record.entity)])
                  ELSE EmptyBinding
        a_ok == IF clause.attribute.bound
                THEN /\ HasEntity(idents, clause.attribute.val.s)
                     /\ GetEntity(idents, clause.attribute.val.s) = record.attribute
                ELSE clause.attribute.var \in DOMAIN env
                         => env[clause.attribute.var] = VEntity(record.attribute)
        a_info == IF ~clause.attribute.bound /\ clause.attribute.var \notin DOMAIN env
                  THEN Extend(e_info,
                              [x \in {clause.attribute.var} |-> VEntity(record.attribute)])
                  ELSE e_info
        v_ok == IF clause.value.bound
                THEN clause.value.val = record.value
                ELSE clause.value.var \in DOMAIN env
                         => env[clause.value.var] = record.value
        v_info == IF ~clause.value.bound /\ clause.value.var \notin DOMAIN env
                  THEN Extend(a_info, [x \in {clause.value.var} |-> record.value])
                  ELSE a_info
    IN  IF e_ok /\ a_ok /\ v_ok
        THEN [some |-> TRUE, new_info |-> v_info]
        ELSE [some |-> FALSE, new_info |-> EmptyBinding]

\* Mutant of records_matching (C15): the error of substitute is dropped and
\* the clause it returned is used as it is.
records_matching_ignores_mismatch(d, clause, binding) ==
    LET sub == substitute(clause, binding)
        expanded == sub.clause
        a == expanded.attribute.val.s
    IN  IF ~expanded.entity.bound /\ expanded.attribute.bound /\ expanded.value.bound
        THEN IF HasEntity(d.idents, a)
             THEN LET attr == GetEntity(d.idents, a)
                      v == expanded.value.val
                      keep == { rec \in Records(d.ave) : rec.attribute = attr /\ rec.value = v }
                  IN  [err |-> "",
                       records |-> TakeWhile(IterRangeFrom(d.ave, Record(0, attr, v, 0)), keep)]
             ELSE [err |-> "invalid attribute", records |-> <<>>]
        ELSE IF expanded.entity.bound /\ expanded.attribute.bound /\ ~expanded.value.bound
        THEN IF HasEntity(d.idents, a)
             THEN LET attr == GetEntity(d.idents, a)
                      e == expanded.entity.val.n
                      keep == { rec \in Records(d.eav) : rec.entity = e /\ rec.attribute = attr }
                  IN  [err |-> "",
                       records |-> TakeWhile(IterRangeFrom(d.eav,
                                                 Record(e, attr, VString(""), 0)), keep)]
             ELSE [err |-> "invalid attribute", records |-> <<>>]
        ELSE LET fits(f) == unify(binding, d.idents, clause, f).some
             IN  [err |-> "", records |-> SelectSeq(Iter(d.eav), fits)]

\* Mutant of records_matching (C21): the take_while of the EAVT arm compares
\* the entity only, so the scan runs on into the entity's other attributes.
records_matching_keeps_entity(d, clause, binding) ==
    LET sub == substitute(clause, binding)
        expanded == sub.clause
        a == expanded.attribute.val.s
    IN  IF sub.err # "" THEN [err |-> sub.err, records |-> <<>>]
        ELSE IF ~expanded.entity.bound /\ expanded.attribute.bound /\ expanded.value.bound
        THEN IF HasEntity(d.idents, a)
             THEN LET attr == GetEntity(d.idents, a)
                      v == expanded.value.val
                      keep == { rec \in Records(d.ave) : rec.attribute = attr /\ rec.value = v }
                  IN  [err |-> "",
                       records |-> TakeWhile(IterRangeFrom(d.ave, Record(0, attr, v, 0)), keep)]
             ELSE [err |-> "invalid attribute", records |-> <<>>]
        ELSE IF expanded.entity.bound /\ expanded.attribute.bound /\ ~expanded.value.bound
        THEN IF HasEntity(d.idents, a)
             THEN LET attr == GetEntity(d.idents, a)
                      e == expanded.entity.val.n
                      keep == { rec \in Records(d.eav) : rec.entity = e }
                  IN  [err |-> "",
                       records |-> TakeWhile(IterRangeFrom(d.eav,
                                                 Record(e, attr, VString(""), 0)), keep)]
             ELSE [err |-> "invalid attribute", records |-> <<>>]
        ELSE LET fits(f) == unify(binding, d.idents, clause, f).some
             IN  [err |-> "", records |-> SelectSeq(Iter(d.eav), fits)]

\* Db::records_matching(clause, binding): the error, or the records in the
\* order the chosen index yields them.
records_matching(d, clause, binding) ==
    LET sub == substitute(clause, binding)
        expanded == sub.clause
        a == expanded.attribute.val.s
    IN  IF sub.err # "" THEN [err |-> sub.err, records |-> <<>>]
        ELSE IF ~expanded.entity.bound /\ expanded.attribute.bound /\ expanded.value.bound
        THEN IF HasEntity(d.idents, a)
             THEN LET attr == GetEntity(d.idents, a)
                      v == expanded.value.val
                      keep == { rec \in Records(d.ave) : rec.attribute = attr /\ rec.value = v }
                  IN  [err |-> "",
                       records |-> TakeWhile(IterRangeFrom(d.ave, Record(0, attr, v, 0)), keep)]
             ELSE [err |-> "invalid attribute", records |-> <<>>]
        ELSE IF expanded.entity.bound /\ expanded.attribute.bound /\ ~expanded.value.bound
        THEN IF HasEntity(d.idents, a)
             THEN LET attr == GetEntity(d.idents, a)
                      e == expanded.entity.val.n
                      keep == { rec \in Records(d.eav) : rec.entity = e /\ rec.attribute = attr }
                  IN  [err |-> "",
                       records |-> TakeWhile(IterRangeFrom(d.eav,
                                                 Record(e, attr, VString(""), 0)), keep)]
             ELSE [err |-> "invalid attribute", records |-> <<>>]
        ELSE LET fits(f) == unify(binding, d.idents, clause, f).some
             IN  [err |-> "", records |-> SelectSeq(Iter(d.eav), fits)]

\* The loop over the records matching a clause under one binding: the
\* bindings it pushes to new_bindings.
RECURSIVE unify_records(_, _, _, _)
unify_records(d, clause, binding, records) ==
    IF records = <<>> THEN <<>>
    ELSE LET u == unify(binding, d.idents, clause, Head(records))
             rest == unify_records(d, clause, binding, Tail(records))
         IN  IF u.some THEN <<Extend(binding, u.new_info)>> \o rest ELSE rest

\* The loop over the bindings for one clause: the error, or new_bindings.
RECURSIVE clause_bindings(_, _, _)
clause_bindings(d, clause, bindings) ==
    IF bindings = <<>> THEN [err |-> "", bindings |-> <<>>]
    ELSE LET m == records_matching(d, clause, Head(bindings))
             rest == clause_bindings(d, clause, Tail(bindings))
         IN  IF m.err # "" THEN [err |-> m.err, bindings |-> <<>>]
             ELSE IF rest.err # "" THEN rest
             ELSE [err |-> "",
                   bindings |-> unify_records(d, clause, Head(bindings), m.records)
                                    \o rest.bindings]

\* The loop over the clauses of a query.
RECURSIVE query_clauses(_, _, _)
query_clauses(d, clauses, bindings) ==
    IF clauses = <<>> THEN [err |-> "", bindings |-> bindings]
    ELSE LET step == clause_bindings(d, Head(clauses), bindings)
         IN  IF step.err # "" THEN step
             ELSE query_clauses(d, Tail(clauses), step.bindings)

\* The binding restricted to the variables of the find list.
Project(binding, find) ==
    [x \in { y \in DOMAIN binding : \E i \in 1..Len(find) : find[i] = y } |-> binding[x]]

\* Mutant of query (C16): the bindings are returned without the projection on
\* the find list.
query_without_projection(d, q) ==
    LET r == query_clauses(d, q.clauses, <<EmptyBinding>>)
    IN  IF r.err # "" THEN [err |-> r.err, find |-> q.find, bindings |-> <<>>]
        ELSE [err |-> "", find |-> q.find, bindings |-> r.bindings]

\* Db::query(query): Err(message), or QueryResult(find, bindings).
query(d, q) ==
    LET r == query_clauses(d, q.clauses, <<EmptyBinding>>)
    IN  IF r.err # "" THEN [err |-> r.err, find |-> q.find, bindings |-> <<>>]
        ELSE [err |-> "", find |-> q.find,
              bindings |-> [i \in 1..Len(r.bindings) |-> Project(r.bindings[i], q.find)]]

\* ------------------------------------------------------------------ inputs

\* A (name, value) pair of a NewEntity HashMap.
Pair(k, v) == [k |-> k, v |-> v]

\* The transaction items a caller submits.  "name" is an attribute that is
\* unknown until a db:ident record defines it; entity 5 lies above the ids the
\* bootstrap uses, and entity 9 is one that no record is about.
TxItems ==
    { Addition(Fact(0, "name", VString("Bob"))),
      Addition(Fact(5, "db:ident", VIdent("db:ident"))),
      Addition(Fact(0, "db:txInstant", VEntity(9))),
      Addition(Fact(0, "db:ident", VString("Bob"))),
      NewEntity(<<Pair("db:ident", VIdent("name"))>>),
      NewEntity(<<Pair("db:ident", VIdent("name")), Pair("name", VString("Bob"))>>),
      NewEntity(<<Pair("name", VString("Bob")), Pair("db:ident", VIdent("name"))>>),
      Retraction(Fact(0, "name", VString("Bob"))) }

\* Tx { items } with n items.
Txs(n) == [1..n -> TxItems]

\* The terms of the clauses a caller asks about.
EntityTerms == { Unbound("e"), Bound(VEntity(0)) }
AttributeTerms == { Unbound("a"), Bound(VString("db:ident")), Bound(VString("name")) }
ValueTerms == { Unbound("v"), Bound(VString("Bob")) }

\* The queries of one clause, with every variable of the clause in the find list.
Queries ==
    { Query(<<"e", "a", "v">>, <<Clause(e, a, v)>>) :
        e \in EntityTerms, a \in AttributeTerms, v \in ValueTerms }

\* ------------------------------------------------------------ state machine

VARIABLES
    next_id,         \* Db.next_id
    idents,          \* Db.idents
    eav,             \* Db.eav
    ave,             \* Db.ave
    aev,             \* Db.aev
    store,           \* the DbContents the KV store holds
    clock,           \* the last instant UTC::now() returned
    last,            \* the last call on the Db and what it returned
    fresh,           \* the Db instance was created by bootstrapping a fresh store
    inst_calls,      \* transact calls made on this Db instance
    nitems,          \* transaction items submitted in all
    all_tx,          \* every transaction entity get_id has assigned
    failed_records   \* the records emitted by transact calls that failed

vars == <<next_id, idents, eav, ave, aev, store, clock, last, fresh, inst_calls, nitems,
          all_tx, failed_records>>

\* The Db instance as a value.
Self == [next_id |-> next_id, idents |-> idents, eav |-> eav, ave |-> ave,
         aev |-> aev, panicked |-> (last.outcome = "panic")]

\* The fields of the Db instance become those of d.
Install(d) ==
    /\ next_id' = d.next_id
    /\ idents' = d.idents
    /\ eav' = d.eav
    /\ ave' = d.ave
    /\ aev' = d.aev

\* What a call to Db::new leaves in `last`.
LastNew == [op |-> "new", outcome |-> "ok", tx_entity |-> 0,
            new_entities |-> <<>>, handed |-> {}]

\* Db::new on a fresh in-process store.
Init ==
    \E now \in Timestamps :
        LET d == new(FreshContents, now)
        IN  /\ next_id = d.next_id
            /\ idents = d.idents
            /\ eav = d.eav
            /\ ave = d.ave
            /\ aev = d.aev
            /\ store = FreshContents
            /\ clock = now
            /\ last = LastNew
            /\ fresh = TRUE
            /\ inst_calls = 0
            /\ nitems = 0
            /\ all_tx = {}
            /\ failed_records = {}

\* Db::transact(Tx { items }) on the Db instance.
Transact(items, now) ==
    LET r == transact(Self, items, now)
        emitted == Records(r.db.eav) \ Records(eav)
    IN  /\ last.outcome # "panic"
        /\ nitems + Len(items) <= MaxItems
        /\ now >= clock
        /\ clock' = now
        /\ Install(r.db)
        /\ store' = IF r.saved THEN r.contents ELSE store
        /\ last' = [op |-> "transact", outcome |-> r.outcome, tx_entity |-> r.tx_entity,
                    new_entities |-> r.new_entities, handed |-> r.handed]
        /\ inst_calls' = inst_calls + 1
        /\ nitems' = nitems + Len(items)
        /\ all_tx' = all_tx \cup {r.tx_entity}
        /\ failed_records' = IF r.outcome = "ok"
                             THEN failed_records \ emitted
                             ELSE failed_records \cup emitted
        /\ UNCHANGED fresh

\* The process (or a new one) opens the store again: Db::new(store).  The
\* clock is read only when the store is fresh and the bootstrap runs.
Reopen(now) ==
    LET d == new(store, now)
    IN  /\ last.op = "transact"
        /\ now >= clock
        /\ clock' = IF store.next_id = 0 THEN now ELSE clock
        /\ Install(d)
        /\ last' = LastNew
        /\ fresh' = (store.next_id = 0)
        /\ inst_calls' = 0
        /\ UNCHANGED <<store, nitems, all_tx, failed_records>>

Next ==
    \/ \E n \in 1..(MaxItems - nitems) :
          \E items \in Txs(n), now \in Timestamps : Transact(items, now)
    \/ \E now \in Timestamps : Reopen(now)

Spec == Init /\ [][Next]_vars

\* The transaction items of the runs that queries are asked on: those that
\* define the attribute "name", store name facts and rebind db:ident.
QueryTxItems ==
    { Addition(Fact(0, "name", VString("Bob"))),
      Addition(Fact(5, "db:ident", VIdent("db:ident"))),
      NewEntity(<<Pair("db:ident", VIdent("name"))>>),
      NewEntity(<<Pair("db:ident", VIdent("name")), Pair("name", VString("Bob"))>>) }

\* Db::new on a fresh store at the first instant of the clock.
InitQ == Init /\ clock = 1

\* The transact calls on one Db instance with the items drawn from
\* QueryTxItems, all within one instant of the clock.
NextQ ==
    \E n \in 1..(MaxItems - nitems) :
        \E items \in [1..n -> QueryTxItems] : Transact(items, clock)

SpecQ == InitQ /\ [][NextQ]_vars

\* The operations of the KV store that may fail during a call.
StoreFailures == {"insert", "set_contents"}

\* Db::transact(Tx { items }) on the Db instance while the KV store fails.
TransactStoreFails(items, now, at) ==
    LET r == transact_store_fails(Self, items, now, at)
        emitted == Records(r.db.eav) \ Records(eav)
    IN  /\ last.outcome # "panic"
        /\ nitems + Len(items) <= MaxItems
        /\ now >= clock
        /\ clock' = now
        /\ Install(r.db)
        /\ last' = [op |-> "transact, store fails", outcome |-> r.outcome,
                    tx_entity |-> r.tx_entity, new_entities |-> r.new_entities,
                    handed |-> r.handed]
        /\ inst_calls' = inst_calls + 1
        /\ nitems' = nitems + Len(items)
        /\ all_tx' = all_tx \cup {r.tx_entity}
        /\ failed_records' = failed_records \cup emitted
        /\ UNCHANGED <<store, fresh>>

\* Db::query on the Db instance while the KV store fails a node read: the
\* unwrap on the iterator, or on one of its items, panics.
QueryStoreFails ==
    /\ last.outcome # "panic"
    /\ last' = [op |-> "query, store fails", outcome |-> "panic", tx_entity |-> 0,
                new_entities |-> <<>>, handed |-> {}]
    /\ UNCHANGED <<next_id, idents, eav, ave, aev, store, clock, fresh, inst_calls,
                   nitems, all_tx, failed_records>>

\* The calls on one Db instance over a KV store that may fail.
NextIO ==
    \/ \E n \in 1..(MaxItems - nitems) :
          \E items \in [1..n -> QueryTxItems] : Transact(items, clock)
    \/ \E n \in 1..(MaxItems - nitems) :
          \E items \in [1..n -> QueryTxItems], at \in StoreFailures :
              TransactStoreFails(items, clock, at)
    \/ QueryStoreFails

SpecIO == InitQ /\ [][NextIO]_vars

\* ------------------------------------------------------------- store URIs

\* The longest URI handed to store_from_uri, in pieces.
MaxUriLen == 5

\* The pieces a URI is made of: the three scheme prefixes, the character '/',
\* and a character "p" that is neither.  A URI is a sequence of pieces.
UriPieces == {"logos:mem:", "logos:sqlite:", "logos:cass:", "/", "p"}

\* The URIs a caller hands to store_from_uri.
Uris == UNION { [1..n -> UriPieces] : n \in 0..MaxUriLen }

\* str::split("//") from position i on, cur being the part read so far: the
\* parts between the occurrences of "//", matched from left to right.
RECURSIVE SplitFrom(_, _, _)
SplitFrom(uri, i, cur) ==
    IF i > Len(uri) THEN <<cur>>
    ELSE IF i < Len(uri) /\ uri[i] = "/" /\ uri[i + 1] = "/"
         THEN <<cur>> \o SplitFrom(uri, i + 2, <<>>)
         ELSE SplitFrom(uri, i + 1, Append(cur, uri[i]))

\* uri.split("//").collect::<Vec<_>>()
Split(uri) == SplitFrom(uri, 1, <<>>)

\* store_from_uri(uri): Ok(store of a kind, opened with an argument) or
\* Err("Invalid uri").
store_from_uri(uri) ==
    LET parts == Split(uri)
    IN  IF Len(parts) = 2 /\ parts[1] = <<"logos:mem:">>
        THEN [outcome |-> "ok", kind |-> "HeapStore", arg |-> <<>>]
        ELSE IF Len(parts) = 2 /\ parts[1] = <<"logos:sqlite:">>
        THEN [outcome |-> "ok", kind |-> "SqliteStore", arg |-> parts[2]]
        ELSE IF Len(parts) = 2 /\ parts[1] = <<"logos:cass:">>
        THEN [outcome |-> "ok", kind |-> "CassandraStore", arg |-> parts[2]]
        ELSE [outcome |-> "Invalid uri", kind |-> "", arg |-> <<>>]

\* A caller hands uri to store_from_uri; each run looks at one call.
OpenUri(uri) ==
    /\ last.op = "new"
    /\ last' = [op |-> "store_from_uri", outcome |-> store_from_uri(uri).outcome,
                uri |-> uri, opened |-> store_from_uri(uri)]
    /\ UNCHANGED <<next_id, idents, eav, ave, aev, store, clock, fresh, inst_calls,
                   nitems, all_tx, failed_records>>

NextUri == \E uri \in Uris : OpenUri(uri)

SpecUri == InitQ /\ [][NextUri]_vars

\* ------------------------------------------------------------------ claims

\* The last call returned to its caller (Ok or Err) rather than panicking.
Returned == last.outcome # "panic"

\* The last call was a transact that returned Err.
FailedTransact == last.op = "transact" /\ last.outcome = "invalid attribute"

\* The last call was a transact that returned Ok.
OkTransact == last.op = "transact" /\ last.outcome = "ok"

\* The DbContents that mirrors the fields of the Db instance.
MemoryContents ==
    [next_id |-> next_id, idents |-> idents,
     eav |-> eav.root_ref, aev |-> aev.root_ref, ave |-> ave.root_ref]

\* C1: after Db::new and after every transact call that returned, successful
\* or failed, the three indexes hold the same set of records.
C1_IndexAgreement ==
    Returned => /\ Records(eav) = Records(aev)
                /\ Records(aev) = Records(ave)

\* C1 witness: a failed transact has emitted records into the indexes.
C1_Witness == FailedTransact /\ Cardinality(Records(eav)) > 3 /\ nitems > 1

\* C2 (as claimed): no record emitted by a failed transact is held by a
\* Database reloaded from the store, whenever the reload happens.
C2_FailedRecordsNeverReloaded ==
    \A now \in Timestamps :
        (Records(new(store, now).eav) \cup Records(new(store, now).ave))
            \cap failed_records = {}

\* C3 (as claimed): a transact that returns Err leaves next_id, the ident map
\* and the three index roots as they were before the call.
C3_FailedTransactChangesNothing ==
    [][ (last'.op = "transact" /\ last'.outcome = "invalid attribute")
        => /\ next_id' = next_id
           /\ idents' = idents
           /\ eav' = eav
           /\ ave' = ave
           /\ aev' = aev ]_vars

C5_NextIdAboveEveryId ==
    Returned =>
        /\ \A r \in Records(eav) :
              /\ r.entity < next_id
              /\ r.attribute < next_id
              /\ r.tx < next_id
              /\ r.value.tag = "Entity" => r.value.n < next_id
        /\ \A t \in all_tx : t < next_id

C7_ReloadAnswersAlike ==
    OkTransact =>
        \A q \in Queries, now \in Timestamps : query(new(store, now), q) = query(Self, q)

\* C8 (as claimed): the attribute of every stored record is an entity that
\* some name of the ident map maps to, also after a name is re-asserted.
C8_AttributeHasIdent ==
    Returned => \A r \in Records(eav) :
                    \E name \in DOMAIN idents : idents[name] = r.attribute

\* The three records of the bootstrap, with the instant the clock gave.
BootstrapRecords ==
    { Record(0, 2, VTimestamp(clock), 0),
      Record(1, 1, VIdent("db:ident"), 0),
      Record(2, 1, VIdent("db:txInstant"), 0) }

\* C9: a Db created on a fresh store resolves db:ident to Entity(1) and
\* db:txInstant to Entity(2) before any transact, holds exactly the three
\* bootstrap records, all of tx Entity(0), and has next_id = 3.
C9_Bootstrap ==
    (fresh /\ last.op = "new") =>
        /\ HasEntity(idents, "db:ident") /\ GetEntity(idents, "db:ident") = 1
        /\ HasEntity(idents, "db:txInstant") /\ GetEntity(idents, "db:txInstant") = 2
        /\ Records(eav) = BootstrapRecords
        /\ Records(ave) = BootstrapRecords
        /\ Records(aev) = BootstrapRecords
        /\ \A r \in Records(eav) : r.tx = 0
        /\ next_id = 3

\* C9 witness: the store is opened again while still fresh, and bootstrapped anew.
C9_Witness == fresh /\ last.op = "new" /\ nitems > 0

\* C10 (as claimed): once the first transact on a Db that bootstrapped a fresh
\* store has returned, the store holds the bootstrap records, the extended
\* ident map and a next_id above the bootstrap entities.
C10_BootstrapCommitted ==
    (fresh /\ inst_calls = 1 /\ last.op = "transact" /\ Returned) =>
        /\ store.next_id >= 3
        /\ { r \in Records(eav) : r.tx = 0 } \subseteq store.eav.recs
        /\ HasEntity(store.idents, "db:ident")
        /\ HasEntity(store.idents, "db:txInstant")

\* C11 (as claimed): a transact whose items include a Retraction returns an
\* error value to its caller; it neither succeeds nor aborts.
C11_RetractionReturnsError ==
    Returned =>
        \A now \in Timestamps :
            LET r == transact(Self, <<Retraction(Fact(0, "db:txInstant", VEntity(9)))>>, now)
            IN  r.outcome # "panic" /\ r.outcome # "ok"

\* C12 (as claimed): a transact adding a db:ident record whose value is a
\* String returns an error value, and the ident map is not extended.
C12_NonIdentValueIsError ==
    Returned =>
        \A now \in Timestamps :
            LET r == transact(Self, <<Addition(Fact(0, "db:ident", VString("Bob")))>>, now)
            IN  /\ r.outcome # "panic" /\ r.outcome # "ok"
                /\ r.db.idents = idents

\* The pairs of the NewEntity items a caller submits.
TxPairs == UNION { { item.pairs[i] : i \in 1..Len(item.pairs) } : item \in TxItems }

\* C13: an Addition, or a NewEntity pair, whose attribute name the ident map
\* does not hold when the item is processed stops the run with the error
\* "invalid attribute" and emits no record; a transact of such an item returns
\* that error with only its transaction record added; and a transact that
\* returns the error has not written the store.
C13_InvalidAttribute ==
    /\ [][ (last'.op = "transact" /\ last'.outcome = "invalid attribute")
            => store' = store ]_vars
    /\ [](Returned =>
            /\ \A item \in TxItems :
                  (item.kind = "Addition" /\ ~HasEntity(idents, item.fact.attribute)) =>
                      /\ LET run == transact_item(TxRun(Self, "", <<>>, {}), item, next_id)
                         IN  run.err = "invalid attribute" /\ run.db = Self
                      /\ \A now \in Timestamps :
                            LET r == transact(Self, <<item>>, now)
                            IN  /\ r.outcome = "invalid attribute"
                                /\ ~r.saved
                                /\ Records(r.db.eav) =
                                       Records(eav) \cup
                                           { Record(next_id, GetEntity(idents, "db:txInstant"),
                                                    VTimestamp(now), next_id) }
            /\ \A p \in TxPairs :
                  ~HasEntity(idents, p.k) =>
                      LET run == new_entity_pairs(TxRun(Self, "", <<>>, {}), <<p>>,
                                                  next_id, next_id)
                      IN  run.err = "invalid attribute" /\ run.db = Self)

\* C13 witness: a transact returned "invalid attribute" on a Db whose store had
\* been written by an earlier transact.
C13_Witness == FailedTransact /\ store.next_id # 0 /\ inst_calls >= 2

\* C14 (as claimed): a query with a clause whose attribute term is a bound name
\* that the ident map does not hold fails with "invalid attribute", whatever
\* the entity and value terms of the clause are.
C14_UnknownAttributeFailsQuery ==
    Returned =>
        \A q \in Queries :
            LET attribute == q.clauses[1].attribute
            IN  (attribute.bound /\ ~HasEntity(idents, attribute.val.s))
                    => query(Self, q).err = "invalid attribute"

\* find ?e ?n where (?e a ?n) (?n a v): the second clause uses in its entity
\* position the variable the first clause binds to a value.
MismatchQuery(a, v) ==
    Query(<<"e", "n">>,
          <<Clause(Unbound("e"), Bound(VString(a)), Unbound("n")),
            Clause(Unbound("n"), Bound(VString(a)), Bound(v))>>)

\* Some stored record has the attribute named a and a value that is no entity.
HasNonEntityFact(a) ==
    /\ HasEntity(idents, a)
    /\ \E r \in Records(eav) :
           r.attribute = GetEntity(idents, a) /\ r.value.tag # "Entity"

JoinQueries ==
    { Query(<<"a">>, <<Clause(Unbound("e"), Unbound("a"), Unbound("v"))>>),
      Query(<<"w">>, <<Clause(Unbound("e"), Bound(VString("db:txInstant")), Unbound("v")),
                       Clause(Unbound("e"), Bound(VString("name")), Unbound("w"))>>),
      Query(<<"x">>, <<Clause(Bound(VEntity(0)), Bound(VString("name")), Unbound("v")),
                       Clause(Unbound("x"), Bound(VString("name")), Unbound("v"))>>) }

\* The term is bound, or its variable is bound by the binding.
Resolved(term, binding) == term.bound \/ term.var \in DOMAIN binding

\* The stored records in the order of the index a clause is scanned in: AVET
\* for the shape ?e a v, EAVT for every other shape.
ScanOrder(d, clause, binding) ==
    IF /\ ~Resolved(clause.entity, binding)
       /\ Resolved(clause.attribute, binding)
       /\ Resolved(clause.value, binding)
    THEN Iter(d.ave)
    ELSE Iter(d.eav)

\* The bindings of every way to choose one stored record per clause, in clause
\* order, such that each clause unifies with its record under the bindings of
\* the earlier clauses; choices are listed record by record in scan order.
RECURSIVE ChoiceBindings(_, _, _)
RECURSIVE ChoicesFrom(_, _, _, _)
ChoiceBindings(d, clauses, binding) ==
    IF clauses = <<>> THEN <<binding>>
    ELSE ChoicesFrom(d, clauses, binding, ScanOrder(d, Head(clauses), binding))

ChoicesFrom(d, clauses, binding, records) ==
    IF records = <<>> THEN <<>>
    ELSE LET u == unify(binding, d.idents, Head(clauses), Head(records))
             rest == ChoicesFrom(d, clauses, binding, Tail(records))
         IN  IF u.some
             THEN ChoiceBindings(d, Tail(clauses), Extend(binding, u.new_info)) \o rest
             ELSE rest

\* C16: a query that returns Ok returns, in order and with repetitions, the
\* binding of each choice of one record per clause, restricted to the
\* variables of the find list.
C16_QueryBindings ==
    Returned =>
        \A q \in Queries \cup JoinQueries :
            LET result == query(Self, q)
                choices == ChoiceBindings(Self, q.clauses, EmptyBinding)
            IN  result.err = "" =>
                    /\ result.find = q.find
                    /\ result.bindings =
                           [i \in 1..Len(choices) |->
                               [x \in { y \in DOMAIN choices[i] :
                                           \E j \in 1..Len(q.find) : q.find[j] = y }
                                   |-> choices[i][x]]]

\* C16 witness: the two name facts of entity 0 and of a new entity are stored,
\* so that the join over ?v has two answers.
C16_Witness ==
    /\ OkTransact
    /\ Len(query(Self, Query(<<"x">>,
              <<Clause(Bound(VEntity(0)), Bound(VString("name")), Unbound("v")),
                Clause(Unbound("x"), Bound(VString("name")), Unbound("v"))>>)).bindings) >= 2

\* C17 (as claimed): a call during which the KV store failed returns an error
\* value to its caller; it neither succeeds nor panics.
C17_StoreFailureIsReturned ==
    last.op \in {"transact, store fails", "query, store fails"}
        => last.outcome # "panic" /\ last.outcome # "ok"

\* The records of an index that state the fact (e, attr, v), under any tx.
Stating(index, e, attr, v) ==
    { r \in Records(index) : r.entity = e /\ r.attribute = attr /\ r.value = v }

C19_NewEntityOrderIndependent ==
    Returned =>
        LET defines == Pair("db:ident", VIdent("name"))
            uses == Pair("name", VString("Bob"))
            one == transact(Self, <<NewEntity(<<defines, uses>>)>>, clock)
            other == transact(Self, <<NewEntity(<<uses, defines>>)>>, clock)
        IN  /\ one.outcome = other.outcome
            /\ Records(one.db.eav) = Records(other.db.eav)
            /\ one.db.idents = other.db.idents

\* The URI starts with the pieces of prefix.
HasPrefix(uri, prefix) ==
    Len(uri) >= Len(prefix) /\ SubSeq(uri, 1, Len(prefix)) = prefix

\* The URI without its first n pieces.
DropPieces(uri, n) == SubSeq(uri, n + 1, Len(uri))

\* C20 (as claimed): store_from_uri gives the in-memory store for logos:mem://,
\* the SQLite store opened at <path> for every logos:sqlite://<path>, the
\* Cassandra store for every logos:cass://<contact-point>, and the error
\* "Invalid uri" for every string of none of the three schemes.
C20_StoreFromUri ==
    last.op = "store_from_uri" =>
        LET uri == last.uri
            opened == last.opened
        IN  /\ uri = <<"logos:mem:", "/", "/">>
                   => opened.outcome = "ok" /\ opened.kind = "HeapStore"
            /\ HasPrefix(uri, <<"logos:sqlite:", "/", "/">>)
                   => /\ opened.outcome = "ok" /\ opened.kind = "SqliteStore"
                      /\ opened.arg = DropPieces(uri, 3)
            /\ HasPrefix(uri, <<"logos:cass:", "/", "/">>)
                   => /\ opened.outcome = "ok" /\ opened.kind = "CassandraStore"
                      /\ opened.arg = DropPieces(uri, 3)
            /\ (\A scheme \in {"logos:mem:", "logos:sqlite:", "logos:cass:"} :
                    ~HasPrefix(uri, <<scheme, "/", "/">>))
                   => opened.outcome = "Invalid uri"


\* The clauses and bindings records_matching is applied to directly: each
\* term is bound in the clause, bound by the binding, or free.
MatchClauses ==
    { Clause(e, a, v) :
        e \in EntityTerms,
        a \in AttributeTerms,
        v \in ValueTerms \cup { Bound(VIdent("name")) } }

\* The bindings of the variables e, a and v that substitute accepts or
\* rejects: an entity, an attribute name and a value.
MatchBindings ==
    LET choices == [ e |-> { VEntity(0), VEntity(5) },
                     a |-> { VString("name") },
                     v |-> { VString("Bob"), VIdent("name") } ]
    IN  UNION { { b \in [vs -> UNION { choices[x] : x \in vs }] :
                    \A x \in vs : b[x] \in choices[x] } :
                vs \in SUBSET {"e", "a", "v"} }

\* The fallthrough arm of records_matching as a set: the records of the EAV
\* index that unify with the clause under the binding.
FilteredScan(d, clause, binding) ==
    { f \in Records(d.eav) : unify(binding, d.idents, clause, f).some }

\* The substituted clause takes one of the two indexed arms of
\* records_matching, and its attribute name is known.
IndexedArm(d, clause, binding) ==
    LET sub == substitute(clause, binding)
        x == sub.clause
    IN  /\ sub.err = ""
        /\ x.attribute.bound
        /\ x.entity.bound # x.value.bound
        /\ HasEntity(d.idents, x.attribute.val.s)

\* The records of a sequence as a set.
Range(s) == { s[i] : i \in 1..Len(s) }

IsNewEntity(item) == item.kind = "NewEntity"

\* The number of records the items of a transaction ask for: one per
\* Addition and one per pair of a NewEntity.
RECURSIVE RecordsAsked(_)
RecordsAsked(items) ==
    IF items = <<>> THEN 0
    ELSE (IF IsNewEntity(Head(items)) THEN Len(Head(items).pairs) ELSE 1)
             + RecordsAsked(Tail(items))

SoundQueries ==
    Queries \cup
    { Query(<<"e", "v", "w">>,
            <<Clause(Unbound("e"), Bound(VString("db:txInstant")), Unbound("v")),
              Clause(Unbound("e"), Bound(VString("name")), Unbound("w"))>>),
      Query(<<"x", "v">>,
            <<Clause(Bound(VEntity(0)), Bound(VString("name")), Unbound("v")),
              Clause(Unbound("x"), Bound(VString("name")), Unbound("v"))>>),
      Query(<<"x">>, <<Clause(Unbound("x"), Bound(VString("name")), Unbound("x"))>>),
      Query(<<"x">>, <<Clause(Unbound("x"), Bound(VString("db:ident")), Unbound("x"))>>) }

\* The value a term stands for once its variable is replaced by the value the
\* binding holds; a bound attribute name stands for the entity it resolves to.
TermValue(idents_, term, binding, position) ==
    IF ~term.bound THEN binding[term.var]
    ELSE IF position = "attribute" THEN VEntity(GetEntity(idents_, term.val.s))
    ELSE term.val

\* The clause, with its variables replaced, is the (entity, attribute, value)
\* triple of the record.
Satisfies(idents_, clause, binding, rec) ==
    /\ clause.attribute.bound => HasEntity(idents_, clause.attribute.val.s)
    /\ TermValue(idents_, clause.entity, binding, "entity") = VEntity(rec.entity)
    /\ TermValue(idents_, clause.attribute, binding, "attribute") = VEntity(rec.attribute)
    /\ TermValue(idents_, clause.value, binding, "value") = rec.value

\* C24: for a query whose find list holds every variable of its clauses, each
\* returned binding satisfies each clause: with the variables replaced by their
\* values, the clause is the triple of some stored record.
C24_BindingsSatisfyClauses ==
    Returned =>
        \A q \in SoundQueries :
            LET result == query(Self, q)
            IN  result.err = "" =>
                    \A i \in 1..Len(result.bindings), k \in 1..Len(q.clauses) :
                        \E rec \in Records(eav) :
                            Satisfies(idents, q.clauses[k], result.bindings[i], rec)


\* The transaction items of the runs on which clause order is examined: they
\* define the attributes "parent" and "name" and store parent facts, whose
\* values are entities.
ParentTxItems ==
    { NewEntity(<<Pair("db:ident", VIdent("parent"))>>),
      NewEntity(<<Pair("db:ident", VIdent("name")), Pair("name", VString("Bob"))>>),
      Addition(Fact(0, "parent", VEntity(1))),
      Addition(Fact(2, "parent", VEntity(2))) }

\* The transact calls on one Db instance with the items drawn from
\* ParentTxItems, all within one instant of the clock.
NextP ==
    \E n \in 1..(MaxItems - nitems) :
        \E items \in [1..n -> ParentTxItems] : Transact(items, clock)

SpecP == InitQ /\ [][NextP]_vars

\* Queries of two clauses that share a variable.
TwoClauseQueries ==
    { Query(<<"x", "n">>,
            <<Clause(Unbound("x"), Bound(VString("parent")), Unbound("x")),
              Clause(Unbound("x"), Bound(VString("db:ident")), Unbound("n"))>>),
      Query(<<"e", "p", "n">>,
            <<Clause(Unbound("e"), Bound(VString("parent")), Unbound("p")),
              Clause(Unbound("p"), Bound(VString("db:ident")), Unbound("n"))>>),
      Query(<<"e", "v", "w">>,
            <<Clause(Unbound("e"), Bound(VString("db:ident")), Unbound("v")),
              Clause(Unbound("e"), Bound(VString("parent")), Unbound("w"))>>),
      Query(<<"e", "v">>,
            <<Clause(Unbound("e"), Bound(VString("name")), Unbound("v")),
              Clause(Unbound("e"), Bound(VString("db:ident")), Bound(VIdent("name")))>>),
      Query(<<"e", "a", "v">>,
            <<Clause(Unbound("e"), Unbound("a"), Unbound("v")),
              Clause(Unbound("a"), Bound(VString("db:ident")), Bound(VIdent("parent")))>>) }

\* The query with its two clauses in the other order.
Swapped(q) == Query(q.find, <<q.clauses[2], q.clauses[1]>>)

\* C25: two queries with the same find list whose clause lists are
\* permutations of each other, and which both return Ok, return the same set
\* of bindings.
C25_ClauseOrderIndependent ==
    Returned =>
        \A q \in TwoClauseQueries :
            LET one == query(Self, q)
                other == query(Self, Swapped(q))
            IN  (one.err = "" /\ other.err = "")
                    => Range(one.bindings) = Range(other.bindings)

====
